---- MODULE Spec2Model ----
(***************************************************************************)
(* TagSet<MAX_TAGS, MAX_TAG_LEN> of tensor4all-core (src/tagset.rs): a     *)
(* fixed-capacity array of SmallString plus a length field, kept sorted.   *)
(* A text is a sequence of Unicode scalar values (naturals).               *)
(***************************************************************************)
EXTENDS Integers, Sequences, FiniteSets, TLC

\* ------------------------------------------------------------------------
\* Bounds of the model
\* ------------------------------------------------------------------------
MAX_TAGS == 3
MAX_TAG_LEN == 2
MaxTextLen == 9
MaxStartLen == 6

Comma == 44
Space == 32
Letters == {97, 98}
Chars == Letters \cup {Comma, Space}

TextsOver(chars, n) == UNION {[1..k -> chars] : k \in 0..n}

\* arguments handed to add_tag / remove_tag: the empty text, one-letter
\* texts, a text that has another as a proper prefix, a comma, a blank, and a
\* text one character longer than fits
TooLongText == [i \in 1..(MAX_TAG_LEN + 1) |-> 97]
TagTexts == TextsOver(Letters, 1) \cup {<<97, 98>>, <<Comma>>, <<Space>>, TooLongText}

\* arguments handed to add_tag / remove_tag where two sets are built: two
\* letters and a text with one of them as proper prefix and, for the first
\* set, the empty text (equal to the filler of an unused slot)
OtherTexts == {<<97>>, <<98>>, <<97, 98>>}
PairTexts == OtherTexts \cup {<< >>}

\* arguments handed to from_str: the texts a set's life may start from (any
\* characters), and the texts from_str is applied to as a function of its
\* input (those, and longer ones without blanks, long enough to hold more
\* than MAX_TAGS distinct tags)
StartTexts == TextsOver(Chars, MaxStartLen)
ParseTexts == TextsOver(Letters \cup {Comma}, MaxTextLen) \cup StartTexts

Slots == 0..(MAX_TAGS - 1)

\* ------------------------------------------------------------------------
\* SmallString<MAX_TAG_LEN>
\* ------------------------------------------------------------------------
SmallString_new == << >>

SmallString_from_str(text) ==
    IF Len(text) > MAX_TAG_LEN
    THEN [ok |-> FALSE, err |-> [kind |-> "TooLong", actual |-> Len(text), max |-> MAX_TAG_LEN]]
    ELSE [ok |-> TRUE, val |-> text]

\* Ord for SmallString: lexicographic over the scalar sequence, a proper
\* prefix sorts first
SmallString_cmp(a, b) ==
    LET n == IF Len(a) < Len(b) THEN Len(a) ELSE Len(b)
        diffs == {i \in 1..n : a[i] # b[i]}
    IN  IF diffs = {}
        THEN IF Len(a) < Len(b) THEN "Less"
             ELSE IF Len(a) > Len(b) THEN "Greater" ELSE "Equal"
        ELSE LET k == CHOOSE i \in diffs : \A j \in diffs : i <= j
             IN  IF a[k] < b[k] THEN "Less" ELSE "Greater"

is_whitespace(c) == c = Space

\* ------------------------------------------------------------------------
\* Result values
\* ------------------------------------------------------------------------
Ok == [kind |-> "Ok"]
TooManyTags(a, m) == [kind |-> "TooManyTags", actual |-> a, max |-> m]
InvalidTag(e) == [kind |-> "InvalidTag", inner |-> e]
RetBool(b) == [kind |-> "bool", value |-> b]
NoRes == [kind |-> "none"]

\* ------------------------------------------------------------------------
\* TagSet: [tags : Slots -> text, length : Nat]
\* ------------------------------------------------------------------------
new == [tags |-> [i \in Slots |-> SmallString_new], length |-> 0]

\* variant: the right end drops to mid - 1 although it is exclusive
RECURSIVE BinarySearchLoop_low(_, _, _, _)
BinarySearchLoop_low(tags, tag, left, right) ==
    IF left < right
    THEN LET mid == left + ((right - left) \div 2)
             c == SmallString_cmp(tags[mid], tag)
         IN  IF c = "Less" THEN BinarySearchLoop_low(tags, tag, mid + 1, right)
             ELSE IF c = "Greater" THEN BinarySearchLoop_low(tags, tag, left, mid - 1)
             ELSE [found |-> TRUE, idx |-> mid]
    ELSE [found |-> FALSE, idx |-> left]

\* slice::binary_search over tags[..length]: [found, idx]
RECURSIVE BinarySearchLoop(_, _, _, _)
BinarySearchLoop(tags, tag, left, right) ==
    IF left < right
    THEN LET mid == left + ((right - left) \div 2)
             c == SmallString_cmp(tags[mid], tag)
         IN  IF c = "Less" THEN BinarySearchLoop(tags, tag, mid + 1, right)
             ELSE IF c = "Greater" THEN BinarySearchLoop(tags, tag, left, mid)
             ELSE [found |-> TRUE, idx |-> mid]
    ELSE [found |-> FALSE, idx |-> left]

\* variant: a tag that is not found is placed in front
binary_search_front(ts, tag) ==
    LET r == BinarySearchLoop(ts.tags, tag, 0, ts.length)
    IN  IF r.found THEN r ELSE [found |-> FALSE, idx |-> 0]

binary_search(ts, tag) == BinarySearchLoop(ts.tags, tag, 0, ts.length)

_has_tag(ts, tag) == binary_search(ts, tag).found

\* variant: the capacity test lets a full set through
CapacityReached_off(ts) == ts.length > MAX_TAGS

CapacityReached(ts) == ts.length >= MAX_TAGS

\* variant: the shift runs upwards and smears tags[pos] over the tail
ShiftRight_up(tags, i, pos) ==
    IF i < pos THEN [tags |-> tags, panic |-> FALSE]
    ELSE IF i + 1 \notin Slots \/ i \notin Slots THEN [tags |-> tags, panic |-> TRUE]
    ELSE [tags |-> [k \in Slots |-> IF k > pos /\ k <= i + 1 THEN tags[pos] ELSE tags[k]],
          panic |-> FALSE]

\* for i in (pos..length).rev() { tags[i + 1] = tags[i] }, from i downwards
RECURSIVE ShiftRight(_, _, _)
ShiftRight(tags, i, pos) ==
    IF i < pos THEN [tags |-> tags, panic |-> FALSE]
    ELSE IF i + 1 \notin Slots \/ i \notin Slots THEN [tags |-> tags, panic |-> TRUE]
    ELSE ShiftRight([tags EXCEPT ![i + 1] = tags[i]], i - 1, pos)

\* variant: the tag is appended after the last element
InsertAt_append(ts, pos, tag) ==
    IF ts.length \notin Slots
    THEN [ts |-> ts, res |-> NoRes, panic |-> TRUE]
    ELSE [ts |-> [tags |-> [ts.tags EXCEPT ![ts.length] = tag], length |-> ts.length + 1],
          res |-> Ok, panic |-> FALSE]

InsertAt(ts, pos, tag) ==
    LET sh == ShiftRight(ts.tags, ts.length - 1, pos)
    IN  IF sh.panic \/ pos \notin Slots
        THEN [ts |-> ts, res |-> NoRes, panic |-> TRUE]
        ELSE [ts |-> [tags |-> [sh.tags EXCEPT ![pos] = tag], length |-> ts.length + 1],
              res |-> Ok, panic |-> FALSE]

\* variant: the error reports the current length as actual
_add_tag_ordered_len(ts, tag) ==
    IF ts.length > MAX_TAGS THEN [ts |-> ts, res |-> NoRes, panic |-> TRUE]
    ELSE IF _has_tag(ts, tag) THEN [ts |-> ts, res |-> Ok, panic |-> FALSE]
    ELSE IF CapacityReached(ts)
         THEN [ts |-> ts, res |-> TooManyTags(ts.length, MAX_TAGS), panic |-> FALSE]
    ELSE InsertAt(ts, binary_search(ts, tag).idx, tag)

\* variant: the capacity test comes before the duplicate test
_add_tag_ordered_capfirst(ts, tag) ==
    IF ts.length > MAX_TAGS THEN [ts |-> ts, res |-> NoRes, panic |-> TRUE]
    ELSE IF CapacityReached(ts)
         THEN [ts |-> ts, res |-> TooManyTags(ts.length + 1, MAX_TAGS), panic |-> FALSE]
    ELSE IF _has_tag(ts, tag) THEN [ts |-> ts, res |-> Ok, panic |-> FALSE]
    ELSE InsertAt(ts, binary_search(ts, tag).idx, tag)

_add_tag_ordered(ts, tag) ==
    IF ts.length > MAX_TAGS THEN [ts |-> ts, res |-> NoRes, panic |-> TRUE]
    ELSE IF _has_tag(ts, tag) THEN [ts |-> ts, res |-> Ok, panic |-> FALSE]
    ELSE IF CapacityReached(ts)
         THEN [ts |-> ts, res |-> TooManyTags(ts.length + 1, MAX_TAGS), panic |-> FALSE]
    ELSE InsertAt(ts, binary_search(ts, tag).idx, tag)

\* variant: a full set is refused before the text is looked at
add_tag_capfirst(ts, text) ==
    LET s == SmallString_from_str(text)
    IN  IF CapacityReached(ts)
        THEN [ts |-> ts, res |-> TooManyTags(ts.length + 1, MAX_TAGS), panic |-> FALSE]
        ELSE IF ~s.ok THEN [ts |-> ts, res |-> InvalidTag(s.err), panic |-> FALSE]
        ELSE _add_tag_ordered(ts, s.val)

add_tag(ts, text) ==
    LET s == SmallString_from_str(text)
    IN  IF ~s.ok THEN [ts |-> ts, res |-> InvalidTag(s.err), panic |-> FALSE]
        ELSE _add_tag_ordered(ts, s.val)

\* variant: the scan runs over every slot, not only [0, length)
position_allslots(ts, tag) ==
    LET hits == {i \in Slots : ts.tags[i] = tag}
    IN  IF hits = {} THEN -1 ELSE CHOOSE i \in hits : \A j \in hits : i <= j

\* tags[..length].iter().position(|t| *t == tag): -1 stands for None
position(ts, tag) ==
    LET hits == {i \in 0..(ts.length - 1) : ts.tags[i] = tag}
    IN  IF hits = {} THEN -1 ELSE CHOOSE i \in hits : \A j \in hits : i <= j

\* variant: nothing is shifted
ShiftLeft_none(tags, i, end) == [tags |-> tags, panic |-> FALSE]

\* for i in pos..length - 1 { tags[i] = tags[i + 1] }, from i upwards
RECURSIVE ShiftLeft(_, _, _)
ShiftLeft(tags, i, end) ==
    IF i >= end THEN [tags |-> tags, panic |-> FALSE]
    ELSE IF i + 1 \notin Slots \/ i \notin Slots THEN [tags |-> tags, panic |-> TRUE]
    ELSE ShiftLeft([tags EXCEPT ![i] = tags[i + 1]], i + 1, end)

RemoveAt(ts, pos) ==
    LET sh == ShiftLeft(ts.tags, pos, ts.length - 1)
    IN  IF sh.panic \/ ts.length < 1
        THEN [ts |-> ts, res |-> NoRes, panic |-> TRUE]
        ELSE [ts |-> [tags |-> sh.tags, length |-> ts.length - 1],
              res |-> RetBool(TRUE), panic |-> FALSE]

remove_tag(ts, text) ==
    LET s == SmallString_from_str(text)
    IN  IF ~s.ok THEN [ts |-> ts, res |-> RetBool(FALSE), panic |-> FALSE]
        ELSE IF ts.length > MAX_TAGS THEN [ts |-> ts, res |-> NoRes, panic |-> TRUE]
        ELSE LET pos == position(ts, s.val)
             IN  IF pos = -1 THEN [ts |-> ts, res |-> RetBool(FALSE), panic |-> FALSE]
                 ELSE RemoveAt(ts, pos)

\* variant: only the whitespace in front is dropped
RECURSIVE trimmed_start(_)
trimmed_start(current_tag) ==
    IF current_tag # << >> /\ current_tag[1] = Space
    THEN trimmed_start(Tail(current_tag))
    ELSE current_tag

\* current_tag.chars().filter(|c| !c.is_whitespace()).collect()
NotWhitespace(c) == ~is_whitespace(c)
trimmed(current_tag) == SelectSeq(current_tag, NotWhitespace)

\* the body run at a ',' and once more after the last character
FlushTag(ts, current_tag) ==
    IF current_tag # << >> /\ trimmed(current_tag) # << >>
    THEN add_tag(ts, trimmed(current_tag))
    ELSE [ts |-> ts, res |-> Ok, panic |-> FALSE]

\* variant: a segment whose add fails is skipped and the parse goes on
RECURSIVE FromStrLoop_skip(_, _, _, _)
FromStrLoop_skip(s, i, ts, current_tag) ==
    IF i > Len(s)
    THEN LET r == FlushTag(ts, current_tag)
         IN  IF r.panic THEN r ELSE [ts |-> r.ts, res |-> Ok, panic |-> FALSE]
    ELSE IF s[i] = Comma
         THEN LET r == FlushTag(ts, current_tag)
              IN  IF r.panic THEN r
                  ELSE FromStrLoop_skip(s, i + 1, r.ts, << >>)
         ELSE FromStrLoop_skip(s, i + 1, ts, Append(current_tag, s[i]))

\* for ch in s.chars() { ... } from character i on, then the last tag
RECURSIVE FromStrLoop(_, _, _, _)
FromStrLoop(s, i, ts, current_tag) ==
    IF i > Len(s) THEN FlushTag(ts, current_tag)
    ELSE IF s[i] = Comma
         THEN LET r == FlushTag(ts, current_tag)
              IN  IF r.panic \/ r.res # Ok THEN r
                  ELSE FromStrLoop(s, i + 1, r.ts, << >>)
         ELSE FromStrLoop(s, i + 1, ts, Append(current_tag, s[i]))

from_str(s) == FromStrLoop(s, 1, new, << >>)

has_tag(ts, text) ==
    LET s == SmallString_from_str(text)
    IN  IF ~s.ok THEN FALSE ELSE _has_tag(ts, s.val)

get(ts, index) ==
    IF index < ts.length THEN [some |-> TRUE, val |-> ts.tags[index]]
    ELSE [some |-> FALSE]

\* variant: one tag of the other set is enough
has_tags_any(a, b) ==
    b.length = 0 \/ \E i \in 0..(b.length - 1) : _has_tag(a, b.tags[i])

\* for tag in tags.iter() { if !self._has_tag(tag) { return false } } true
has_tags(a, b) == \A i \in 0..(b.length - 1) : _has_tag(a, b.tags[i])

IgnoredErr == [kind |-> "IgnoredErr"]

\* for tag in self.iter() { if other._has_tag(tag) { result._add_tag_ordered(*tag).ok() } }
RECURSIVE CommonTagsLoop(_, _, _, _, _)
CommonTagsLoop(a, b, i, result, err) ==
    IF i >= a.length
    THEN [ts |-> result, res |-> IF err THEN IgnoredErr ELSE Ok, panic |-> FALSE]
    ELSE IF _has_tag(b, a.tags[i])
         THEN LET r == _add_tag_ordered(result, a.tags[i])
              IN  IF r.panic THEN [ts |-> result, res |-> NoRes, panic |-> TRUE]
                  ELSE CommonTagsLoop(a, b, i + 1, r.ts, err \/ r.res # Ok)
         ELSE CommonTagsLoop(a, b, i + 1, result, err)

\* variant: membership is asked of self instead of other
common_tags_self(a, b) == CommonTagsLoop(a, a, 0, new, FALSE)

common_tags(a, b) == CommonTagsLoop(a, b, 0, new, FALSE)

\* variant: the derived comparison, over the whole array
eq_derived(a, b) == a.length = b.length /\ a.tags = b.tags

\* PartialEq: equal lengths and equal tags[..length]
eq(a, b) ==
    IF a.length # b.length THEN FALSE
    ELSE \A i \in 0..(a.length - 1) : a.tags[i] = b.tags[i]

\* ------------------------------------------------------------------------
\* State: one TagSet value and the last call made on it; a second TagSet
\* value and the set a call returned, for the calls that take or give one
\* ------------------------------------------------------------------------
VARIABLES pc, tags, length, op, arg, res, prevTags, prevLength, panicked,
          otherTags, otherLength, out

vars == <<pc, tags, length, op, arg, res, prevTags, prevLength, panicked,
          otherTags, otherLength, out>>

self == [tags |-> tags, length |-> length]
prev == [tags |-> prevTags, length |-> prevLength]
other == [tags |-> otherTags, length |-> otherLength]

Init ==
    /\ pc = "start"
    /\ tags = new.tags
    /\ length = new.length
    /\ op = "none"
    /\ arg = << >>
    /\ res = NoRes
    /\ prevTags = new.tags
    /\ prevLength = new.length
    /\ panicked = FALSE
    /\ otherTags = new.tags
    /\ otherLength = new.length
    /\ out = new

Apply(name, text, r) ==
    /\ op' = name
    /\ arg' = text
    /\ prevTags' = tags
    /\ prevLength' = length
    /\ res' = r.res
    /\ panicked' = r.panic
    /\ tags' = r.ts.tags
    /\ length' = r.ts.length
    /\ pc' = IF r.panic THEN "aborted" ELSE "live"
    /\ UNCHANGED <<otherTags, otherLength, out>>

New ==
    /\ pc = "start"
    /\ Apply("new", << >>, [ts |-> new, res |-> NoRes, panic |-> FALSE])

\* let ts = TagSet::from_str(s)?: on Err there is no set
FromStrCall(s) ==
    LET r == from_str(s)
    IN  IF r.panic \/ r.res = Ok
        THEN Apply("from_str", s, r)
        ELSE /\ op' = "from_str"
             /\ arg' = s
             /\ res' = r.res
             /\ pc' = "failed"
             /\ UNCHANGED <<tags, length, prevTags, prevLength, panicked,
                            otherTags, otherLength, out>>

FromStr ==
    /\ pc = "start"
    /\ \E s \in StartTexts : FromStrCall(s)

AddTag(text) ==
    /\ pc = "live"
    /\ Apply("add_tag", text, add_tag(self, text))

RemoveTag(text) ==
    /\ pc = "live"
    /\ Apply("remove_tag", text, remove_tag(self, text))

\* &self: the set is handed on as it is
HasTag(text) ==
    /\ pc = "live"
    /\ Apply("has_tag", text, [ts |-> self, res |-> RetBool(has_tag(self, text)), panic |-> FALSE])

Next ==
    \/ New
    \/ FromStr
    \/ \E t \in TagTexts : AddTag(t)
    \/ \E t \in TagTexts : RemoveTag(t)
    \/ \E t \in TagTexts : HasTag(t)

Spec == Init /\ [][Next]_vars

\* from_str as a function of its input: the text is given, the call is made
InitParse ==
    /\ pc = "given"
    /\ arg \in ParseTexts
    /\ tags = new.tags
    /\ length = new.length
    /\ op = "none"
    /\ res = NoRes
    /\ prevTags = new.tags
    /\ prevLength = new.length
    /\ panicked = FALSE
    /\ otherTags = new.tags
    /\ otherLength = new.length
    /\ out = new

ParseGiven ==
    /\ pc = "given"
    /\ FromStrCall(arg)

NextParse == ParseGiven

SpecParse == InitParse /\ [][NextParse]_vars

\* two TagSet values, each built by add_tag and remove_tag, and the calls
\* that take both
InitPair ==
    /\ pc = "pair"
    /\ tags = new.tags
    /\ length = new.length
    /\ op = "none"
    /\ arg = << >>
    /\ res = NoRes
    /\ prevTags = new.tags
    /\ prevLength = new.length
    /\ panicked = FALSE
    /\ otherTags = new.tags
    /\ otherLength = new.length
    /\ out = new

Built(ts1, ts2, r) ==
    /\ tags' = ts1.tags
    /\ length' = ts1.length
    /\ otherTags' = ts2.tags
    /\ otherLength' = ts2.length
    /\ panicked' = r.panic
    /\ pc' = IF r.panic THEN "aborted" ELSE "pair"
    /\ op' = "build"
    /\ res' = NoRes
    /\ out' = new
    /\ UNCHANGED <<arg, prevTags, prevLength>>

AddTagSelf(text) ==
    /\ pc = "pair"
    /\ LET r == add_tag(self, text) IN Built(r.ts, other, r)

RemoveTagSelf(text) ==
    /\ pc = "pair"
    /\ LET r == remove_tag(self, text) IN Built(r.ts, other, r)

AddTagOther(text) ==
    /\ pc = "pair"
    /\ LET r == add_tag(other, text) IN Built(self, r.ts, r)

RemoveTagOther(text) ==
    /\ pc = "pair"
    /\ LET r == remove_tag(other, text) IN Built(self, r.ts, r)

CommonTags ==
    /\ pc = "pair"
    /\ LET r == common_tags(self, other)
       IN  /\ op' = "common_tags"
           /\ out' = r.ts
           /\ res' = r.res
           /\ panicked' = r.panic
           /\ pc' = IF r.panic THEN "aborted" ELSE "pair"
    /\ UNCHANGED <<tags, length, otherTags, otherLength, arg, prevTags, prevLength>>

HasTags ==
    /\ pc = "pair"
    /\ op' = "has_tags"
    /\ res' = RetBool(has_tags(self, other))
    /\ out' = new
    /\ UNCHANGED <<pc, tags, length, otherTags, otherLength, arg, prevTags, prevLength, panicked>>

NextPair ==
    \/ \E t \in PairTexts : AddTagSelf(t)
    \/ \E t \in PairTexts : RemoveTagSelf(t)
    \/ \E t \in OtherTexts : AddTagOther(t)
    \/ \E t \in OtherTexts : RemoveTagOther(t)
    \/ CommonTags
    \/ HasTags

SpecPair == InitPair /\ [][NextPair]_vars

TypeOK ==
    /\ pc \in {"start", "given", "pair", "live", "failed", "aborted"}
    /\ length \in Nat
    /\ DOMAIN tags = Slots

\* ------------------------------------------------------------------------
\* Observers used by the properties
\* ------------------------------------------------------------------------
\* tags[..length].iter(): the elements in slot order, and as a set
iter(ts) == [i \in 1..ts.length |-> ts.tags[i - 1]]
Elems(ts) == {ts.tags[i] : i \in 0..(ts.length - 1)}

Representable(text) == Len(text) <= MAX_TAG_LEN
StrictlyAscending(ts) ==
    \A i \in 0..(ts.length - 2) : SmallString_cmp(ts.tags[i], ts.tags[i + 1]) = "Less"
NoDuplicates(ts) ==
    \A i, j \in 0..(ts.length - 1) : i # j => ts.tags[i] # ts.tags[j]
Untouched == tags = prevTags /\ length = prevLength
\* the number of elements of ts that sort before tag
Rank(ts, tag) == Cardinality({e \in Elems(ts) : SmallString_cmp(e, tag) = "Less"})
\* q with its element at slot p taken out
Without(q, p) == [i \in 1..(Len(q) - 1) |-> IF i <= p THEN q[i] ELSE q[i + 1]]

\* C1: in every state reached from new() or a successful from_str by add_tag
\* and remove_tag calls, the elements at [0, length) are strictly ascending
\* and therefore free of duplicates.
C1_SortInvariant == StrictlyAscending(self) /\ NoDuplicates(self)

\* a set was filled by an add that went in front of all the other elements
C1_Witness ==
    /\ op = "add_tag" /\ res = Ok
    /\ prevLength = MAX_TAGS - 1 /\ length = MAX_TAGS
    /\ tags[0] = arg

\* C2: 0 <= length <= MAX_TAGS always, and no call indexes a slot outside
\* [0, MAX_TAGS): a capacity violation is an error value, never an abort.
C2_BoundsNoAbort ==
    /\ length \in 0..MAX_TAGS
    /\ ~panicked
    /\ pc # "aborted"

\* a set already full was asked for one more tag and answered with an error
C2_Witness ==
    /\ op = "add_tag" /\ prevLength = MAX_TAGS
    /\ res.kind = "TooManyTags"
    /\ SmallString_cmp(arg, prevTags[0]) = "Less"

\* C3: add_tag of a representable non-member on a full set fails with
\* TooManyTags{actual: length + 1, max: MAX_TAGS} and leaves length and every
\* slot as they were.
C3_FullAddFails ==
    (op = "add_tag" /\ prevLength = MAX_TAGS /\ Representable(arg) /\ arg \notin Elems(prev))
        => (res = TooManyTags(prevLength + 1, MAX_TAGS) /\ Untouched)

C3_Witness ==
    /\ op = "add_tag" /\ prevLength = MAX_TAGS
    /\ Representable(arg) /\ arg \notin Elems(prev)
    /\ res.kind = "TooManyTags" /\ res.actual = MAX_TAGS + 1

\* C4: add_tag of a text with more than MAX_TAG_LEN characters fails with
\* InvalidTag(TooLong{actual: character count, max: MAX_TAG_LEN}), also on a
\* full set, and leaves the set as it was.
C4_TooLongAddFails ==
    (op = "add_tag" /\ ~Representable(arg))
        => /\ res = InvalidTag([kind |-> "TooLong", actual |-> Len(arg), max |-> MAX_TAG_LEN])
           /\ Untouched

\* the too-long text was handed to a full set
C4_Witness ==
    /\ op = "add_tag" /\ ~Representable(arg)
    /\ prevLength = MAX_TAGS
    /\ res.kind = "InvalidTag"

\* C5: add_tag is idempotent: adding a member returns Ok and changes nothing,
\* also on a full set; after a successful add the tag is a member; so a
\* second add_tag of the same text leaves the set the first call left.
C5_AddIdempotent ==
    /\ (op = "add_tag" /\ Representable(arg) /\ arg \in Elems(prev)) => (res = Ok /\ Untouched)
    /\ (op = "add_tag" /\ res = Ok) => arg \in Elems(self)
    /\ op = "add_tag" =>
          LET again == add_tag(self, arg)
          IN  /\ ~again.panic
              /\ again.ts.length = length
              /\ iter(again.ts) = iter(self)
              /\ res = Ok => again.res = Ok

\* a member was added again to a full set
C5_Witness ==
    /\ op = "add_tag" /\ arg \in Elems(prev)
    /\ prevLength = MAX_TAGS
    /\ res = Ok /\ length = MAX_TAGS

\* C6: add_tag of a representable non-member on a set that is not full
\* returns Ok, grows length by one, yields the old elements plus the tag, puts
\* the tag at the one slot that keeps the order, and keeps the others in
\* their relative order.
C6_InsertCorrect ==
    (op = "add_tag" /\ prevLength < MAX_TAGS /\ Representable(arg) /\ arg \notin Elems(prev))
        => /\ res = Ok
           /\ length = prevLength + 1
           /\ Elems(self) = Elems(prev) \cup {arg}
           /\ tags[Rank(prev, arg)] = arg
           /\ StrictlyAscending(self)
           /\ Without(iter(self), Rank(prev, arg)) = iter(prev)

\* the tag went between two elements
C6_Witness ==
    /\ op = "add_tag" /\ res = Ok
    /\ prevLength = 2 /\ length = 3
    /\ arg \notin Elems(prev)
    /\ tags[1] = arg

\* C7: remove_tag of a member returns true, shrinks length by one, makes
\* has_tag false for it, and keeps every other member in the same relative
\* order.
C7_RemoveCorrect ==
    (op = "remove_tag" /\ Representable(arg) /\ arg \in Elems(prev))
        => /\ res = RetBool(TRUE)
           /\ length = prevLength - 1
           /\ ~has_tag(self, arg)
           /\ Elems(self) = Elems(prev) \ {arg}
           /\ iter(self) = Without(iter(prev), position(prev, arg))

\* the first of three elements was removed
C7_Witness ==
    /\ op = "remove_tag" /\ res = RetBool(TRUE)
    /\ prevLength = 3 /\ length = 2
    /\ prevTags[0] = arg

\* C8: remove_tag of a text that is not a member, or is longer than
\* MAX_TAG_LEN, returns false and leaves length and every slot as they were.
C8_RemoveAbsentNoop ==
    (op = "remove_tag" /\ (~Representable(arg) \/ arg \notin Elems(prev)))
        => (res = RetBool(FALSE) /\ Untouched)

\* the text was absent from [0, length) while a slot beyond length held it
C8_Witness ==
    /\ op = "remove_tag" /\ res = RetBool(FALSE)
    /\ arg \notin Elems(prev)
    /\ prevLength >= 1
    /\ \E i \in Slots : i >= prevLength /\ prevTags[i] = arg /\ arg # << >>

\* ------------------------------------------------------------------------
\* The comma-separated reading of a text, stated without the parser
\* ------------------------------------------------------------------------
\* a segment is named by the position of the delimiter before it (0 for the
\* first); it runs up to the next delimiter or the end of the text
CommaPos(s) == {i \in 1..Len(s) : s[i] = Comma}
Starts(s) == {0} \cup CommaPos(s)
SegEnd(s, b) ==
    LET ends == {c \in CommaPos(s) \cup {Len(s) + 1} : c > b}
    IN  CHOOSE c \in ends : \A d \in ends : c <= d
Segment(s, b) == SubSeq(s, b + 1, SegEnd(s, b) - 1)
IsBlank(c) == c = Space
NonBlank(c) == ~IsBlank(c)
Stripped(t) == SelectSeq(t, NonBlank)
\* the stripped text of every segment, by segment name
SegTexts(s) == [b \in Starts(s) |-> Stripped(Segment(s, b))]
Candidates(g) == {b \in DOMAIN g : g[b] # << >>}
Earlier(g, b) == {g[c] : c \in {x \in Candidates(g) : x < b}}
SegFails(g, b) ==
    \/ ~Representable(g[b])
    \/ g[b] \notin Earlier(g, b) /\ Cardinality(Earlier(g, b)) >= MAX_TAGS
SegError(g, b) ==
    IF ~Representable(g[b])
    THEN InvalidTag([kind |-> "TooLong", actual |-> Len(g[b]), max |-> MAX_TAG_LEN])
    ELSE TooManyTags(MAX_TAGS + 1, MAX_TAGS)
Failing(g) == {b \in Candidates(g) : SegFails(g, b)}
FirstFailing(g) == CHOOSE b \in Failing(g) : \A c \in Failing(g) : b <= c

\* C9: from_str fails fast: the first non-empty stripped segment whose add
\* fails (too long, or new when MAX_TAGS distinct tags are in) decides the
\* error returned and no set is returned; repeats of a tag do not count
\* against the capacity; from_str returns Ok iff no segment fails.
C9_ParseFailsFast ==
    op = "from_str" =>
        LET g == SegTexts(arg)
            failing == Failing(g)
        IN  IF failing = {}
            THEN res = Ok /\ pc = "live"
            ELSE /\ res = SegError(g, CHOOSE b \in failing : \A c \in failing : b <= c)
                 /\ pc = "failed"
                 /\ Untouched

\* MAX_TAGS distinct tags went in and the next new tag was refused
C9_Witness ==
    /\ op = "from_str" /\ pc = "failed"
    /\ res = TooManyTags(MAX_TAGS + 1, MAX_TAGS)
    /\ LET g == SegTexts(arg)
       IN  Cardinality(Earlier(g, FirstFailing(g))) = MAX_TAGS

\* C10: when from_str succeeds the set holds exactly the distinct texts got
\* by splitting on ',', deleting every whitespace character of each segment
\* and dropping the segments left empty; a text of commas and whitespace
\* only gives the empty set.
C10_ParseContents ==
    (op = "from_str" /\ res = Ok) =>
        LET g == SegTexts(arg)
            wanted == {g[b] : b \in Candidates(g)}
        IN  /\ Elems(self) = wanted
            /\ length = Cardinality(wanted)
            /\ (\A i \in 1..Len(arg) : arg[i] = Comma \/ IsBlank(arg[i])) => length = 0

\* a segment with a blank inside, an empty segment, and two tags as result
C10_Witness ==
    /\ op = "from_str" /\ res = Ok /\ length = 2
    /\ LET g == SegTexts(arg)
       IN  /\ \E b \in DOMAIN g : b \notin Candidates(g)
           /\ \E b \in Candidates(g) :
                 LET t == Segment(arg, b)
                 IN  Len(t) >= 3 /\ ~IsBlank(t[1]) /\ ~IsBlank(t[Len(t)]) /\ Len(g[b]) < Len(t)

\* ------------------------------------------------------------------------
\* Texts rebuilt from their segments
\* ------------------------------------------------------------------------
RECURSIVE Join(_)
Join(segs) ==
    IF Len(segs) = 0 THEN << >>
    ELSE IF Len(segs) = 1 THEN segs[1]
    ELSE segs[1] \o <<Comma>> \o Join(Tail(segs))
\* the segments of s in text order
SegList(s) ==
    [k \in 1..Cardinality(Starts(s)) |->
        Segment(s, CHOOSE b \in Starts(s) : Cardinality({x \in Starts(s) : x < b}) = k - 1)]
\* q with its elements at i and j exchanged
Swapped(q, i, j) == [k \in 1..Len(q) |-> IF k = i THEN q[j] ELSE IF k = j THEN q[i] ELSE q[k]]
\* the elements of a set of tags in ascending order
Ascending(S) ==
    [i \in 1..Cardinality(S) |->
        CHOOSE e \in S : Cardinality({x \in S : SmallString_cmp(x, e) = "Less"}) = i - 1]

\* C11: the order of the segments does not matter: when the stripped
\* segments of a text are at most MAX_TAGS distinct tags, each within
\* MAX_TAG_LEN, from_str succeeds, its elements read in slot order are the
\* distinct tags in ascending order, and from_str of the text with any two
\* segments exchanged succeeds with an equal set.
C11_OrderIndependent ==
    op = "from_str" =>
        LET g == SegTexts(arg)
            wanted == {g[b] : b \in Candidates(g)}
            segs == SegList(arg)
        IN  ((\A t \in wanted : Representable(t)) /\ Cardinality(wanted) <= MAX_TAGS)
                => /\ res = Ok
                   /\ iter(self) = Ascending(wanted)
                   /\ \A i, j \in 1..Len(segs) :
                         LET r == from_str(Join(Swapped(segs, i, j)))
                         IN  ~r.panic /\ r.res = Ok /\ eq(r.ts, self)

\* MAX_TAGS distinct tags were given in descending order
C11_Witness ==
    /\ op = "from_str" /\ res = Ok /\ length = MAX_TAGS
    /\ LET segs == SegList(arg)
       IN  /\ Len(segs) = MAX_TAGS
           /\ \A k \in 1..Len(segs) : segs[k] = tags[MAX_TAGS - k]

\* the canonical text of a set: its elements in slot order, joined by ','
to_text(ts) == Join(iter(ts))

\* C12: round trip: for every set reached from new() by add_tag and
\* remove_tag, from_str of the comma-joined ascending sequence of its
\* elements succeeds and yields a set equal to it.
C12_RoundTrip ==
    pc = "live" =>
        LET r == from_str(to_text(self))
        IN  ~r.panic /\ r.res = Ok /\ eq(r.ts, self)

\* ------------------------------------------------------------------------
\* Calls on two sets
\* ------------------------------------------------------------------------
Min(m, n) == IF m < n THEN m ELSE n
\* ts with every slot beyond length reset to the filler of new()
Clean(ts) ==
    [tags |-> [i \in Slots |-> IF i < ts.length THEN ts.tags[i] ELSE SmallString_new],
     length |-> ts.length]

\* C13: a.common_tags(b) holds exactly the tags that are members of both,
\* in ascending order (so it is the same whatever order built a and b), its
\* length is at most min(len(a), len(b)), no insertion into the result
\* fails, and it equals b.common_tags(a).
C13_CommonTags ==
    op = "common_tags" =>
        /\ ~panicked /\ res = Ok
        /\ Elems(out) = Elems(self) \cap Elems(other)
        /\ iter(out) = Ascending(Elems(self) \cap Elems(other))
        /\ StrictlyAscending(out)
        /\ out.length <= Min(length, otherLength)
        /\ LET back == common_tags(other, self)
           IN  ~back.panic /\ back.res = Ok /\ eq(out, back.ts)

\* two full sets that share all but one tag each
C13_Witness ==
    /\ op = "common_tags" /\ res = Ok
    /\ length = MAX_TAGS /\ otherLength = MAX_TAGS
    /\ out.length = MAX_TAGS - 1

\* C14: a.has_tags(b) is true iff every element of b is a member of a; it
\* is true when b is empty; when it is true, removing from a any one element
\* of b makes it false.
C14_HasTags ==
    op = "has_tags" =>
        /\ res = RetBool(Elems(other) \subseteq Elems(self))
        /\ otherLength = 0 => res = RetBool(TRUE)
        /\ res = RetBool(TRUE) =>
              \A e \in Elems(other) : ~has_tags(remove_tag(self, e).ts, other)

\* a proper, non-empty subset of a full set was asked for
C14_Witness ==
    /\ op = "has_tags" /\ res = RetBool(TRUE)
    /\ length = MAX_TAGS /\ otherLength = 2
    /\ tags[0] \notin Elems(other)

\* C15: has_tag is exact membership: true iff the text is one of the elements
\* at [0, length), in agreement with the linear scan remove_tag uses; false
\* for a text longer than MAX_TAG_LEN; it never fails and never changes the
\* set.
C15_HasTagExact ==
    /\ pc = "live" =>
          \A t \in TagTexts :
              /\ has_tag(self, t) = (Representable(t) /\ t \in Elems(self))
              /\ Representable(t) => (has_tag(self, t) = (position(self, t) # -1))
    /\ op = "has_tag" =>
          /\ res = RetBool(Representable(arg) /\ arg \in Elems(prev))
          /\ ~Representable(arg) => res = RetBool(FALSE)
          /\ Untouched
          /\ ~panicked

\* the last element of a full set was asked for and found
C15_Witness ==
    /\ op = "has_tag" /\ res = RetBool(TRUE)
    /\ length = MAX_TAGS
    /\ tags[MAX_TAGS - 1] = arg

\* C16: the slots beyond length are never observed: get(i) gives an element
\* iff i < length, and then the i-th of the iteration; two sets are == iff
\* their lengths and their sequences [0, length) agree, whatever the slots
\* beyond hold; has_tag, has_tags and common_tags answer as they do on the
\* sets with those slots reset.
C16_FillerUnobservable ==
    /\ \A i \in 0..MAX_TAGS :
          /\ get(self, i).some = (i < length)
          /\ i < length => get(self, i).val = iter(self)[i + 1]
    /\ Len(iter(self)) = length
    /\ eq(self, other) = (length = otherLength /\ iter(self) = iter(other))
    /\ eq(self, Clean(self)) /\ eq(other, Clean(other))
    /\ \A t \in PairTexts :
          /\ has_tag(self, t) = has_tag(Clean(self), t)
          /\ has_tag(other, t) = has_tag(Clean(other), t)
    /\ has_tags(self, other) = has_tags(Clean(self), Clean(other))
    /\ has_tags(other, self) = has_tags(Clean(other), Clean(self))
    /\ eq(common_tags(self, other).ts, common_tags(Clean(self), Clean(other)).ts)
    /\ eq(common_tags(other, self).ts, common_tags(Clean(other), Clean(self)).ts)

\* two sets with the same elements, one of them with the copy of a removed
\* tag left in a slot beyond length
C16_Witness ==
    /\ pc = "pair" /\ length >= 1
    /\ eq(self, other)
    /\ \E i \in Slots :
          i >= length /\ tags[i] # otherTags[i] /\ tags[i] # SmallString_new

====
